---- MODULE Spec2Model ----
(***************************************************************************)
(* Model of the crawl orchestration of ByeBye21/email_extractor:           *)
(*   src/crawler/website_crawler.py  WebsiteCrawler (frontier, admission   *)
(*                                   policy, robots cache, crawl loop)     *)
(*   src/main.py                     crawl_multiple_urls (site semaphore)  *)
(*   src/utils/validators.py         DataValidator (validation score,      *)
(*                                   deduplicate_contacts)                 *)
(*   src/extractors/email_extractor.py  EmailExtractor (extract_emails,    *)
(*                                   email format gate)                    *)
(***************************************************************************)
EXTENDS Integers, Sequences, FiniteSets, TLC

(***************************************************************************)
(* Bounds of the model.                                                    *)
(***************************************************************************)
MaxDepthCfg == 3   \* config.max_depth ranges over 1..MaxDepthCfg
MaxPagesCfg == 4   \* config.max_pages ranges over 1..MaxPagesCfg
MaxLinks == 3      \* a page carries at most MaxLinks distinct links,
MaxOffLinks == 1   \*   at most MaxOffLinks of them outside SiteURLs
BatchCap == 2      \* the cap of a batch (20 in the code), scaled to the model
MaxSites == 5      \* crawl_multiple_urls gets 2..MaxSites start URLs
MaxCalls == 2      \* crawl_website calls made on one crawler

(***************************************************************************)
(* The URL universe.  A URL is a string; urlparse gives its parts.         *)
(***************************************************************************)
BaseDomain == "site"
OtherDomain == "other"
Domains == {BaseDomain, OtherDomain}

StartURL == "http://site/"
SiteURLs == {"http://site/", "http://site/b", "http://site/c", "http://site/d"}
URLs == SiteURLs \cup {"http://other/", "http://site/f.pdf",
                       "http://site/l?page=101", "http://[bad"}

\* urllib.parse.urlparse: ok = FALSE when it raises ValueError.
urlparse(url) ==
    CASE url = "http://other/" ->
           [ok |-> TRUE, netloc |-> OtherDomain, ext |-> "", page |-> 0]
      [] url = "http://site/f.pdf" ->
           [ok |-> TRUE, netloc |-> BaseDomain, ext |-> ".pdf", page |-> 0]
      [] url = "http://site/l?page=101" ->
           [ok |-> TRUE, netloc |-> BaseDomain, ext |-> "", page |-> 101]
      [] url = "http://[bad" ->
           [ok |-> FALSE, netloc |-> "", ext |-> "", page |-> 0]
      [] OTHER ->
           [ok |-> TRUE, netloc |-> BaseDomain, ext |-> "", page |-> 0]

\* Config.excluded_extensions default.
excluded_extensions == {".pdf", ".doc", ".docx", ".zip", ".rar"}

\* The pagination guard of _should_crawl_url.
PageLimit == 100

(***************************************************************************)
(* What rp.read() can leave in the robots cache: NoParser when loading     *)
(* raised (the cache holds None), otherwise a parser that disallows a set  *)
(* of URLs, or one whose can_fetch raises.                                 *)
(***************************************************************************)
NoParser == [loaded |-> FALSE, disallow |-> {}, raises |-> FALSE]
Parsers ==
    {[loaded |-> TRUE, disallow |-> {}, raises |-> FALSE],
     [loaded |-> TRUE, disallow |-> {"http://site/c"}, raises |-> FALSE],
     [loaded |-> TRUE, disallow |-> SiteURLs, raises |-> TRUE]}
RobotsOutcomes == {NoParser} \cup Parsers

FailReasons == {"fetch error", "extract error"}

VARIABLES
    max_depth,       \* config.max_depth
    max_pages,       \* config.max_pages
    allowed_domains, \* config.allowed_domains ({} is None)
    excluded_domains,\* config.excluded_domains ({} is None)
    visited_urls,    \* self.visited_urls
    queued_urls,     \* self.queued_urls
    failed_urls,     \* self.failed_urls : URL -> reason
    robots_cache,    \* self.robots_cache : domain -> parser
    robots_reads,    \* history: number of rp.read() calls per domain
    pc,              \* position of the crawl_website control task
    base_domain,     \* local base_domain
    current_depth,   \* local current_depth
    current_urls,    \* local current_urls (the wave)
    next_urls,       \* local next_urls
    batch_i,         \* local i of the batch loop (0-based offset)
    batch,           \* local batch
    batch_results,   \* results of the batch's tasks, "pending" while running
    fold_j,          \* position of the zip loop in the batch (1-based)
    all_results,     \* local all_results, as the URLs of the CrawlResults
    outcomes,        \* history: how each task of the batch ended
    crawled,         \* history: how often a URL was handed to _crawl_single_page
    nwaves,          \* history: number of waves started
    calls,           \* history: number of crawl_website calls on this crawler
    admitted,        \* the last _should_crawl_url call and its answer
    site_state,      \* crawl_multiple_urls: state of each crawl_with_semaphore task
    sem_value,       \* crawl_multiple_urls: semaphore._value
    sem_waiters,     \* crawl_multiple_urls: semaphore._waiters (FIFO)
    call_args,       \* the arguments of a call of one of the pure functions
    call_ret         \* <<the value that call returned>>, NoReturn before

cfgvars == <<max_depth, max_pages, allowed_domains, excluded_domains>>

\* The fields of the crawler that _should_crawl_url reads or writes.
frontiervars == <<visited_urls, queued_urls, robots_cache, robots_reads>>

\* The locals of crawl_website and the history of the crawl.
loopvars == <<failed_urls, pc, base_domain, current_depth, current_urls,
              next_urls, batch_i, batch, batch_results, fold_j, all_results,
              outcomes, crawled, nwaves, calls>>

multivars == <<site_state, sem_value, sem_waiters>>

\* A call of a function of the extraction and post-processing stages.
callvars == <<call_args, call_ret>>

vars == <<cfgvars, frontiervars, loopvars, admitted, multivars, callvars>>

Min(a, b) == IF a < b THEN a ELSE b

EmptyMap == [u \in {} |-> ""]

(***************************************************************************)
(* The robots cache.  R is the pair [cache, reads]; rp is what rp.read()   *)
(* produces if it is called.                                               *)
(***************************************************************************)
\* Mutant of _get_robots_parser: robots.txt is read on every call.
GetRobotsParserUncached(R, url, rp) ==
    LET domain == urlparse(url).netloc IN
    [cache |-> (domain :> rp) @@ R.cache,
     reads |-> [R.reads EXCEPT ![domain] = @ + 1]]

\* _get_robots_parser: fills the cache for the URL's domain on a miss.
_get_robots_parser(R, url, rp) ==
    LET domain == urlparse(url).netloc IN
    IF domain \in DOMAIN R.cache
    THEN R
    ELSE [cache |-> (domain :> rp) @@ R.cache,
          reads |-> [R.reads EXCEPT ![domain] = @ + 1]]

\* _can_fetch: no parser (None) allows, a raising can_fetch allows.
_can_fetch(R, url, rp) ==
    LET parser == _get_robots_parser(R, url, rp).cache[urlparse(url).netloc] IN
    IF parser.loaded
    THEN (IF parser.raises THEN TRUE ELSE url \notin parser.disallow)
    ELSE TRUE

(***************************************************************************)
(* _should_crawl_url(url, base_domain, current_depth), evaluated against   *)
(* the frontier (v = visited_urls, q = queued_urls) and the robots state   *)
(* R.  The result is the answer and the robots state the call leaves.      *)
(***************************************************************************)
\* Mutant of _should_crawl_url: the same-domain test is missing.
ShouldCrawlAnyDomain(url, base, depth, v, q, R, rp) ==
    LET parsed == urlparse(url)
        reject == [ok |-> FALSE, robots |-> R]
    IN
    IF ~parsed.ok THEN reject
    ELSE IF depth >= max_depth THEN reject
    ELSE IF url \in v \/ url \in q THEN reject
    ELSE IF allowed_domains # {} /\ parsed.netloc \notin allowed_domains
         THEN reject
    ELSE IF excluded_domains # {} /\ parsed.netloc \in excluded_domains
         THEN reject
    ELSE IF parsed.ext \in excluded_extensions THEN reject
    ELSE IF ~_can_fetch(R, url, rp)
         THEN [ok |-> FALSE, robots |-> _get_robots_parser(R, url, rp)]
    ELSE IF parsed.page > PageLimit
         THEN [ok |-> FALSE, robots |-> _get_robots_parser(R, url, rp)]
    ELSE [ok |-> TRUE, robots |-> _get_robots_parser(R, url, rp)]

_should_crawl_url(url, base, depth, v, q, R, rp) ==
    LET parsed == urlparse(url)
        reject == [ok |-> FALSE, robots |-> R]
    IN
    IF ~parsed.ok THEN reject                   \* except Exception: False
    ELSE IF depth >= max_depth THEN reject
    ELSE IF url \in v \/ url \in q THEN reject
    ELSE IF allowed_domains # {} /\ parsed.netloc \notin allowed_domains
         THEN reject
    ELSE IF excluded_domains # {} /\ parsed.netloc \in excluded_domains
         THEN reject
    ELSE IF parsed.netloc # base THEN reject
    ELSE IF parsed.ext \in excluded_extensions THEN reject
    ELSE IF ~_can_fetch(R, url, rp)
         THEN [ok |-> FALSE, robots |-> _get_robots_parser(R, url, rp)]
    ELSE IF parsed.page > PageLimit
         THEN [ok |-> FALSE, robots |-> _get_robots_parser(R, url, rp)]
    ELSE [ok |-> TRUE, robots |-> _get_robots_parser(R, url, rp)]

\* if current_depth < self.config.max_depth - 1
HarvestAllowed(depth) == depth < max_depth - 1

\* Mutant of HarvestLinks: every link is added without the admission check.
HarvestAllLinks(links, base, depth, v, q, R, rp) ==
    [next |-> links, robots |-> R]

\* for link in links: if self._should_crawl_url(link, base_domain, depth): add
RECURSIVE HarvestLinks(_, _, _, _, _, _, _)
HarvestLinks(links, base, depth, v, q, R, rp) ==
    IF links = {}
    THEN [next |-> {}, robots |-> R]
    ELSE LET link == CHOOSE l \in links : TRUE
             r    == _should_crawl_url(link, base, depth, v, q, R, rp)
             rest == HarvestLinks(links \ {link}, base, depth, v, q, r.robots, rp)
         IN [next   |-> (IF r.ok THEN {link} ELSE {}) \cup rest.next,
             robots |-> rest.robots]

(***************************************************************************)
(* Helpers of the crawl loop.                                              *)
(***************************************************************************)
\* list(self.queued_urls): the set in some order.
Orderings(S) ==
    {s \in [1..Cardinality(S) -> S] : \A i, j \in DOMAIN s : i # j => s[i] # s[j]}

\* current_urls[:remaining_pages]
Truncate(urls, remaining) ==
    IF Len(urls) > remaining THEN SubSeq(urls, 1, remaining) ELSE urls

\* Mutant of BatchSize: the whole wave is one batch.
BatchSizeUncapped(urls) == Len(urls)

\* batch_size = min(20, len(current_urls))
BatchSize(urls) == Min(BatchCap, Len(urls))

\* current_urls[i:i + batch_size]
BatchAt(urls, i) == SubSeq(urls, i + 1, Min(i + BatchSize(urls), Len(urls)))

\* Mutant of LoopCond: the loop does not test the queue.
LoopCondIgnoresQueue ==
    /\ current_depth < max_depth
    /\ Cardinality(visited_urls) < max_pages

\* while-condition of crawl_website
LoopCond ==
    /\ queued_urls # {}
    /\ current_depth < max_depth
    /\ Cardinality(visited_urls) < max_pages

\* self.failed_urls[url] = str(e)
SetFailed(f, url, reason) == (url :> reason) @@ f

Range(s) == {s[i] : i \in DOMAIN s}

LinkSets ==
    {L \in SUBSET URLs : /\ Cardinality(L) <= MaxLinks
                         /\ Cardinality(L \ SiteURLs) <= MaxOffLinks}

(***************************************************************************)
(* State after WebsiteCrawler.__init__, for every configuration.           *)
(***************************************************************************)
CrawlerInit ==
    /\ visited_urls = {}
    /\ queued_urls = {}
    /\ failed_urls = EmptyMap
    /\ robots_cache = EmptyMap
    /\ robots_reads = [d \in Domains |-> 0]
    /\ pc = "idle"
    /\ base_domain = ""
    /\ current_depth = 0
    /\ current_urls = <<>>
    /\ next_urls = {}
    /\ batch_i = 0
    /\ batch = <<>>
    /\ batch_results = <<>>
    /\ fold_j = 0
    /\ all_results = <<>>
    /\ outcomes = <<>>
    /\ crawled = [u \in SiteURLs |-> 0]
    /\ nwaves = 0
    /\ calls = 0

\* The configurations of a crawl: every depth and page budget within the
\* bounds, no domain list or an allow-list that leaves the site out.
ConfigInit ==
    /\ max_depth \in 1..MaxDepthCfg
    /\ max_pages \in 1..MaxPagesCfg
    /\ allowed_domains \in {{}, {OtherDomain}}
    /\ excluded_domains = {}

\* No _should_crawl_url call was made yet.
NoCall == [url |-> "", base |-> "", depth |-> 0, ok |-> FALSE, called |-> FALSE]

\* No crawl_multiple_urls is running.
MultiIdle ==
    /\ site_state = <<>>
    /\ sem_value = 0
    /\ sem_waiters = <<>>

\* No call of a function of the extraction stages is modelled.
NoReturn == <<>>
Returned == call_ret # NoReturn
Ret == call_ret[1]
CallIdle ==
    /\ call_args = <<>>
    /\ call_ret = NoReturn

Init == ConfigInit /\ CrawlerInit /\ admitted = NoCall /\ MultiIdle /\ CallIdle

(***************************************************************************)
(* crawl_website, entry: the start URL is queued, the locals are set.      *)
(***************************************************************************)
CrawlWebsite ==
    /\ pc = "idle"
    /\ base_domain' = urlparse(StartURL).netloc
    /\ queued_urls' = queued_urls \cup {StartURL}
    /\ all_results' = <<>>
    /\ current_depth' = 0
    /\ pc' = "loop"
    /\ calls' = calls + 1
    /\ UNCHANGED <<cfgvars, visited_urls, failed_urls, robots_cache,
                   robots_reads, current_urls, next_urls, batch_i, batch,
                   batch_results, fold_j, outcomes, crawled, nwaves,
                   admitted, multivars, callvars>>

\* tasks = [self._crawl_single_page(url, current_depth) for url in batch]
Handed(c, b) ==
    [u \in DOMAIN c |-> IF u \in Range(b) THEN c[u] + 1 ELSE c[u]]

Pending(b) == [k \in DOMAIN b |-> "pending"]

(***************************************************************************)
(* One pass of the while loop up to the first gather: the wave is the      *)
(* queue in some order, cut to the remaining page budget; its first batch  *)
(* is handed to _crawl_single_page.                                        *)
(***************************************************************************)
StartWave ==
    /\ pc = "loop"
    /\ LoopCond
    /\ \E order \in Orderings(queued_urls) :
         LET remaining_pages == max_pages - Cardinality(visited_urls)
             wave == Truncate(order, remaining_pages)
         IN /\ remaining_pages > 0
            /\ current_urls' = wave
            /\ batch' = BatchAt(wave, 0)
            /\ batch_results' = Pending(BatchAt(wave, 0))
            /\ outcomes' = Pending(BatchAt(wave, 0))
            /\ crawled' = Handed(crawled, BatchAt(wave, 0))
    /\ queued_urls' = {}
    /\ next_urls' = {}
    /\ batch_i' = 0
    /\ fold_j' = 1
    /\ nwaves' = nwaves + 1
    /\ pc' = "batch"
    /\ UNCHANGED <<cfgvars, visited_urls, failed_urls, robots_cache,
                   robots_reads, base_domain, current_depth, all_results,
                   calls, admitted, multivars, callvars>>

(***************************************************************************)
(* One task of the batch, _crawl_single_page(url, depth), runs to its      *)
(* return: a CrawlResult, or None after a failed fetch (recorded by        *)
(* _fetch_page_content), after empty content, or after an exception in     *)
(* the extraction (recorded by _crawl_single_page).                        *)
(***************************************************************************)
PageOutcomes == {"ok", "fetch error", "empty", "extract error"}

\* Mutant of _crawl_single_page: an exception of the extraction is swallowed
\* without an entry in failed_urls.
CrawlSinglePageUnrecorded(k, outcome) ==
    /\ outcomes' = [outcomes EXCEPT ![k] = outcome]
    /\ batch_results' =
         [batch_results EXCEPT ![k] = IF outcome = "ok" THEN "CrawlResult" ELSE "None"]
    /\ failed_urls' =
         IF outcome = "fetch error"
         THEN SetFailed(failed_urls, batch[k], outcome)
         ELSE failed_urls

_crawl_single_page(k, outcome) ==
    /\ outcomes' = [outcomes EXCEPT ![k] = outcome]
    /\ batch_results' =
         [batch_results EXCEPT ![k] = IF outcome = "ok" THEN "CrawlResult" ELSE "None"]
    /\ failed_urls' =
         IF outcome \in FailReasons
         THEN SetFailed(failed_urls, batch[k], outcome)
         ELSE failed_urls

\* Mutant of PageTask: the gather hands the results back in the order the
\* tasks complete, a finished task fills the first free position.
PageTaskCompletionOrder ==
    /\ pc = "batch"
    /\ \E k \in DOMAIN outcomes :
         /\ outcomes[k] = "pending"
         /\ \E outcome \in PageOutcomes :
              LET slot == CHOOSE s \in DOMAIN batch_results :
                              /\ batch_results[s] = "pending"
                              /\ \A t \in DOMAIN batch_results :
                                     t < s => batch_results[t] # "pending"
              IN /\ outcomes' = [outcomes EXCEPT ![k] = outcome]
                 /\ batch_results' =
                      [batch_results EXCEPT ![slot] =
                          IF outcome = "ok" THEN "CrawlResult" ELSE "None"]
                 /\ failed_urls' =
                      IF outcome \in FailReasons
                      THEN SetFailed(failed_urls, batch[k], outcome)
                      ELSE failed_urls
    /\ UNCHANGED <<cfgvars, visited_urls, queued_urls, robots_cache,
                   robots_reads, pc, base_domain, current_depth, current_urls,
                   next_urls, batch_i, batch, fold_j, all_results, crawled,
                   nwaves, calls, admitted, multivars, callvars>>

PageTask ==
    /\ pc = "batch"
    /\ \E k \in DOMAIN batch_results :
         /\ batch_results[k] = "pending"
         /\ \E outcome \in PageOutcomes : _crawl_single_page(k, outcome)
    /\ UNCHANGED <<cfgvars, visited_urls, queued_urls, robots_cache,
                   robots_reads, pc, base_domain, current_depth, current_urls,
                   next_urls, batch_i, batch, fold_j, all_results, crawled,
                   nwaves, calls, admitted, multivars, callvars>>

(***************************************************************************)
(* One iteration of "for url, result in zip(batch, batch_results)": the    *)
(* URL becomes visited; a CrawlResult is appended and, below the last      *)
(* depth, the page is fetched again and its links are put through the      *)
(* admission policy into next_urls.  refetch is the outcome of that second *)
(* fetch, links what _extract_links finds in its content.                  *)
(***************************************************************************)
RefetchOutcomes == {"ok", "fetch error", "empty"}

\* Mutant of FoldResult: the admitted links are marked visited on discovery.
FoldResultMarksLinks(url, result, refetch, links, rp) ==
    LET v       == visited_urls \cup {url}
        R       == [cache |-> robots_cache, reads |-> robots_reads]
        harvest == result = "CrawlResult" /\ HarvestAllowed(current_depth)
        h       == IF harvest /\ refetch = "ok"
                   THEN HarvestLinks(links, base_domain, current_depth + 1, v,
                                     queued_urls, R, rp)
                   ELSE [next |-> {}, robots |-> R]
    IN [visited |-> v \cup h.next,
        results |-> IF result = "CrawlResult"
                    THEN Append(all_results, url) ELSE all_results,
        failed  |-> IF harvest /\ refetch = "fetch error"
                    THEN SetFailed(failed_urls, url, refetch) ELSE failed_urls,
        next    |-> next_urls \cup h.next,
        robots  |-> h.robots]

\* Mutant of FoldResult: the harvest is guarded and admitted by the depth of
\* the page instead of the depth of its links.
FoldResultPageDepth(url, result, refetch, links, rp) ==
    LET v       == visited_urls \cup {url}
        R       == [cache |-> robots_cache, reads |-> robots_reads]
        harvest == result = "CrawlResult" /\ current_depth < max_depth
        h       == IF harvest /\ refetch = "ok"
                   THEN HarvestLinks(links, base_domain, current_depth, v,
                                     queued_urls, R, rp)
                   ELSE [next |-> {}, robots |-> R]
    IN [visited |-> v,
        results |-> IF result = "CrawlResult"
                    THEN Append(all_results, url) ELSE all_results,
        failed  |-> IF harvest /\ refetch = "fetch error"
                    THEN SetFailed(failed_urls, url, refetch) ELSE failed_urls,
        next    |-> next_urls \cup h.next,
        robots  |-> h.robots]

FoldResult(url, result, refetch, links, rp) ==
    LET v       == visited_urls \cup {url}
        R       == [cache |-> robots_cache, reads |-> robots_reads]
        harvest == result = "CrawlResult" /\ HarvestAllowed(current_depth)
        h       == IF harvest /\ refetch = "ok"
                   THEN HarvestLinks(links, base_domain, current_depth + 1, v,
                                     queued_urls, R, rp)
                   ELSE [next |-> {}, robots |-> R]
    IN [visited |-> v,
        results |-> IF result = "CrawlResult"
                    THEN Append(all_results, url) ELSE all_results,
        failed  |-> IF harvest /\ refetch = "fetch error"
                    THEN SetFailed(failed_urls, url, refetch) ELSE failed_urls,
        next    |-> next_urls \cup h.next,
        robots  |-> h.robots]

\* The second fetch happens only for a CrawlResult, links are read only from
\* fetched content, and rp.read() answers for a domain as it did before
\* (robots.txt does not change during a crawl).
RefetchChoices(result) ==
    IF result = "CrawlResult" THEN RefetchOutcomes ELSE {"empty"}
LinkChoices(refetch) == IF refetch = "ok" THEN LinkSets ELSE {{}}
RobotsChoices(links) ==
    IF links = {} THEN {NoParser}
    ELSE IF base_domain \in DOMAIN robots_cache THEN {robots_cache[base_domain]}
    ELSE RobotsOutcomes

\* "if len(self.visited_urls) >= self.config.max_pages: break" (both loops)
BudgetSpent(v) == Cardinality(v) >= max_pages

\* Mutant of ProcessResult: the gather of the batch is not awaited, a result
\* that is still pending is folded as None.
ProcessResultUnawaited ==
    /\ pc = "batch"
    /\ fold_j \in DOMAIN batch
    /\ \E refetch \in RefetchChoices(batch_results[fold_j]) :
       \E links \in LinkChoices(refetch) :
       \E rp \in RobotsChoices(links) :
         LET f == FoldResult(batch[fold_j], batch_results[fold_j], refetch, links, rp)
             next_i == batch_i + BatchSize(current_urls)
         IN /\ visited_urls' = f.visited
            /\ all_results' = f.results
            /\ failed_urls' = f.failed
            /\ next_urls' = f.next
            /\ robots_cache' = f.robots.cache
            /\ robots_reads' = f.robots.reads
            /\ IF BudgetSpent(f.visited)
               THEN /\ pc' = "wave_end"
                    /\ UNCHANGED <<fold_j, batch_i, batch, batch_results,
                                   outcomes, crawled>>
               ELSE IF fold_j < Len(batch)
               THEN /\ fold_j' = fold_j + 1
                    /\ UNCHANGED <<pc, batch_i, batch, batch_results,
                                   outcomes, crawled>>
               ELSE IF next_i < Len(current_urls)
               THEN /\ batch_i' = next_i
                    /\ batch' = BatchAt(current_urls, next_i)
                    /\ batch_results' = Pending(BatchAt(current_urls, next_i))
                    /\ outcomes' = Pending(BatchAt(current_urls, next_i))
                    /\ crawled' = Handed(crawled, BatchAt(current_urls, next_i))
                    /\ fold_j' = 1
                    /\ UNCHANGED pc
               ELSE /\ pc' = "wave_end"
                    /\ UNCHANGED <<fold_j, batch_i, batch, batch_results,
                                   outcomes, crawled>>
    /\ UNCHANGED <<cfgvars, queued_urls, base_domain, current_depth,
                   current_urls, nwaves, calls, admitted, multivars,
                   callvars>>

ProcessResult ==
    /\ pc = "batch"
    /\ \A k \in DOMAIN batch_results : batch_results[k] # "pending"
    /\ fold_j \in DOMAIN batch
    /\ \E refetch \in RefetchChoices(batch_results[fold_j]) :
       \E links \in LinkChoices(refetch) :
       \E rp \in RobotsChoices(links) :
         LET f == FoldResult(batch[fold_j], batch_results[fold_j], refetch, links, rp)
             next_i == batch_i + BatchSize(current_urls)
         IN /\ visited_urls' = f.visited
            /\ all_results' = f.results
            /\ failed_urls' = f.failed
            /\ next_urls' = f.next
            /\ robots_cache' = f.robots.cache
            /\ robots_reads' = f.robots.reads
            /\ IF BudgetSpent(f.visited)
               THEN /\ pc' = "wave_end"
                    /\ UNCHANGED <<fold_j, batch_i, batch, batch_results,
                                   outcomes, crawled>>
               ELSE IF fold_j < Len(batch)
               THEN /\ fold_j' = fold_j + 1
                    /\ UNCHANGED <<pc, batch_i, batch, batch_results,
                                   outcomes, crawled>>
               ELSE IF next_i < Len(current_urls)
               THEN /\ batch_i' = next_i
                    /\ batch' = BatchAt(current_urls, next_i)
                    /\ batch_results' = Pending(BatchAt(current_urls, next_i))
                    /\ outcomes' = Pending(BatchAt(current_urls, next_i))
                    /\ crawled' = Handed(crawled, BatchAt(current_urls, next_i))
                    /\ fold_j' = 1
                    /\ UNCHANGED pc
               ELSE /\ pc' = "wave_end"
                    /\ UNCHANGED <<fold_j, batch_i, batch, batch_results,
                                   outcomes, crawled>>
    /\ UNCHANGED <<cfgvars, queued_urls, base_domain, current_depth,
                   current_urls, nwaves, calls, admitted, multivars,
                   callvars>>

(***************************************************************************)
(* End of the wave: self.queued_urls.update(next_urls); current_depth += 1 *)
(***************************************************************************)
\* Mutant of EndWave: current_depth is not advanced.
EndWaveKeepsDepth ==
    /\ pc = "wave_end"
    /\ queued_urls' = queued_urls \cup next_urls
    /\ pc' = "loop"
    /\ UNCHANGED <<cfgvars, visited_urls, failed_urls, robots_cache,
                   robots_reads, base_domain, current_depth, current_urls,
                   next_urls, batch_i, batch, batch_results, fold_j,
                   all_results, outcomes, crawled, nwaves, calls, admitted,
                   multivars, callvars>>

EndWave ==
    /\ pc = "wave_end"
    /\ queued_urls' = queued_urls \cup next_urls
    /\ current_depth' = current_depth + 1
    /\ pc' = "loop"
    /\ UNCHANGED <<cfgvars, visited_urls, failed_urls, robots_cache,
                   robots_reads, base_domain, current_urls, next_urls, batch_i,
                   batch, batch_results, fold_j, all_results, outcomes,
                   crawled, nwaves, calls, admitted, multivars, callvars>>

(***************************************************************************)
(* The while-condition fails: _process_results(all_results, start_url)     *)
(* runs and crawl_website returns.                                         *)
(***************************************************************************)
ProcessResults ==
    /\ pc = "loop"
    /\ ~LoopCond
    /\ pc' = "done"
    /\ UNCHANGED <<cfgvars, visited_urls, queued_urls, failed_urls,
                   robots_cache, robots_reads, base_domain, current_depth,
                   current_urls, next_urls, batch_i, batch, batch_results,
                   fold_j, all_results, outcomes, crawled, nwaves, calls,
                   admitted, multivars, callvars>>

Next ==
    \/ CrawlWebsite
    \/ StartWave
    \/ PageTask
    \/ ProcessResult
    \/ EndWave
    \/ ProcessResults

Spec == Init /\ [][Next]_vars

\* Every fetch returns or fails and the control task keeps running.
FairSpec == Spec /\ WF_vars(Next)

(***************************************************************************)
(* The crawler used for more than one crawl_website call: the second call  *)
(* runs on the fields the first one left.                                  *)
(***************************************************************************)
CrawlWebsiteAgain ==
    /\ pc = "done"
    /\ calls < MaxCalls
    /\ base_domain' = urlparse(StartURL).netloc
    /\ queued_urls' = queued_urls \cup {StartURL}
    /\ all_results' = <<>>
    /\ current_depth' = 0
    /\ pc' = "loop"
    /\ calls' = calls + 1
    /\ UNCHANGED <<cfgvars, visited_urls, failed_urls, robots_cache,
                   robots_reads, current_urls, next_urls, batch_i, batch,
                   batch_results, fold_j, outcomes, crawled, nwaves,
                   admitted, multivars, callvars>>

NextReuse == Next \/ CrawlWebsiteAgain

SpecReuse == Init /\ [][NextReuse]_vars

(***************************************************************************)
(* _should_crawl_url as a function of its inputs: any configuration, a     *)
(* frontier, a robots cache that is empty or holds the site's entry; the   *)
(* step is one call.                                                       *)
(***************************************************************************)
AdmitInit ==
    /\ max_depth \in 1..MaxDepthCfg
    /\ max_pages = MaxPagesCfg
    /\ allowed_domains \in {{}, {BaseDomain}, {OtherDomain}}
    /\ excluded_domains \in {{}, {BaseDomain}, {OtherDomain}}
    /\ visited_urls \in {{}, {StartURL}, {StartURL, "http://site/b"}}
    /\ queued_urls \in {{}, {"http://site/c"}}
    /\ robots_cache \in {EmptyMap} \cup {(BaseDomain :> rp) : rp \in RobotsOutcomes}
    /\ robots_reads = [d \in Domains |-> IF d \in DOMAIN robots_cache THEN 1 ELSE 0]
    /\ failed_urls = EmptyMap
    /\ pc = "admit"
    /\ base_domain = ""
    /\ current_depth = 0
    /\ current_urls = <<>>
    /\ next_urls = {}
    /\ batch_i = 0
    /\ batch = <<>>
    /\ batch_results = <<>>
    /\ fold_j = 0
    /\ all_results = <<>>
    /\ outcomes = <<>>
    /\ crawled = [u \in SiteURLs |-> 0]
    /\ nwaves = 0
    /\ calls = 0
    /\ admitted = NoCall
    /\ MultiIdle
    /\ CallIdle

ShouldCrawlCall ==
    /\ pc = "admit"
    /\ ~admitted.called
    /\ \E url \in URLs, base \in Domains, depth \in 0..MaxDepthCfg,
          rp \in RobotsOutcomes :
         LET r == _should_crawl_url(url, base, depth, visited_urls, queued_urls,
                                    [cache |-> robots_cache, reads |-> robots_reads],
                                    rp)
         IN /\ admitted' = [url |-> url, base |-> base, depth |-> depth,
                            ok |-> r.ok, called |-> TRUE]
            /\ robots_cache' = r.robots.cache
            /\ robots_reads' = r.robots.reads
    /\ UNCHANGED <<cfgvars, visited_urls, queued_urls, loopvars, multivars,
                   callvars>>

SpecAdmit == AdmitInit /\ [][ShouldCrawlCall]_vars

(***************************************************************************)
(* crawl_multiple_urls: one crawl_with_semaphore task per start URL, each  *)
(* with a crawler of its own, all behind asyncio.Semaphore(SiteSlots).     *)
(* A task is "created" by gather, "waiting" in the semaphore's FIFO queue, *)
(* "crawling" inside crawl_single_url, and "done" when it has returned.    *)
(***************************************************************************)
SiteSlots == 3

MultiInit ==
    /\ ConfigInit
    /\ CrawlerInit
    /\ admitted = NoCall
    /\ \E n \in 2..MaxSites : site_state = [i \in 1..n |-> "created"]
    /\ sem_value = SiteSlots
    /\ sem_waiters = <<>>
    /\ CallIdle

\* Mutant of SiteAcquire: the crawl starts without taking the semaphore.
SiteAcquireUnguarded(i) ==
    /\ site_state[i] = "created"
    /\ site_state' = [site_state EXCEPT ![i] = "crawling"]
    /\ UNCHANGED <<cfgvars, frontiervars, loopvars, admitted, callvars,
                   sem_value,
                   sem_waiters>>

\* "async with semaphore", entry: a free slot is taken when nobody waits,
\* otherwise the task joins the queue.
SiteAcquire(i) ==
    /\ site_state[i] = "created"
    /\ IF sem_value > 0 /\ sem_waiters = <<>>
       THEN /\ sem_value' = sem_value - 1
            /\ site_state' = [site_state EXCEPT ![i] = "crawling"]
            /\ UNCHANGED sem_waiters
       ELSE /\ sem_waiters' = Append(sem_waiters, i)
            /\ site_state' = [site_state EXCEPT ![i] = "waiting"]
            /\ UNCHANGED sem_value
    /\ UNCHANGED <<cfgvars, frontiervars, loopvars, admitted, callvars>>

\* crawl_single_url returns (True, or False after an exception) and "async
\* with" releases: the slot goes to the first waiter, if there is one.
SiteRelease(i) ==
    /\ site_state[i] = "crawling"
    /\ IF sem_waiters # <<>>
       THEN /\ site_state' = [site_state EXCEPT ![i] = "done",
                                                ![Head(sem_waiters)] = "crawling"]
            /\ sem_waiters' = Tail(sem_waiters)
            /\ UNCHANGED sem_value
       ELSE /\ site_state' = [site_state EXCEPT ![i] = "done"]
            /\ sem_value' = sem_value + 1
            /\ UNCHANGED sem_waiters
    /\ UNCHANGED <<cfgvars, frontiervars, loopvars, admitted, callvars>>

NextMulti ==
    \/ \E i \in DOMAIN site_state : SiteAcquire(i)
    \/ \E i \in DOMAIN site_state : SiteRelease(i)

\* The event loop runs every ready task and every site crawl returns.
SpecMulti == MultiInit /\ [][NextMulti]_vars /\ WF_vars(NextMulti)

(***************************************************************************)
(* C1: in every state of a crawl_website run the number of distinct        *)
(* visited URLs is at most max_pages.                                      *)
(***************************************************************************)
PageBudgetKept == Cardinality(visited_urls) <= max_pages

\* The budget ran out in the middle of the site: the wave was cut short or
\* admitted links were left behind.
PageBudgetReached ==
    /\ pc = "done"
    /\ max_pages >= 2
    /\ Cardinality(visited_urls) = max_pages
    /\ queued_urls \ visited_urls # {}

(***************************************************************************)
(* C2: no fetch is scheduled at depth >= max_depth: a running wave has     *)
(* depth < max_depth, and the links collected for (or merged into) the     *)
(* next wave were admitted for a depth < max_depth.                        *)
(***************************************************************************)
DepthLimitKept ==
    /\ pc \in {"batch", "wave_end"} =>
         /\ current_depth < max_depth
         /\ next_urls # {} => current_depth + 1 < max_depth
    /\ (pc = "loop" /\ queued_urls # {}) => current_depth < max_depth

\* A wave at the last allowed depth whose pages succeeded: nothing harvested.
LastDepthWave ==
    /\ pc = "wave_end"
    /\ max_depth >= 2
    /\ current_depth = max_depth - 1
    /\ Len(all_results) >= 2
    /\ next_urls = {}

(***************************************************************************)
(* C3: visited and queued are disjoint in every state of a crawl run,      *)
(* also right after next_urls is merged into queued.                       *)
(***************************************************************************)
FrontierDisjoint == visited_urls \cap queued_urls = {}

(***************************************************************************)
(* C4: within one crawl_website run no URL is handed to _crawl_single_page *)
(* more than once.                                                         *)
(***************************************************************************)
CrawledOnce == \A u \in DOMAIN crawled : crawled[u] <= 1

(***************************************************************************)
(* C5: _should_crawl_url answers false for every link whose host differs   *)
(* from base_domain, whatever the depth, the frontier, the domain lists    *)
(* and the robots answer, and also when parsing the link raises.           *)
(***************************************************************************)
DomainConfined ==
    (admitted.called /\ urlparse(admitted.url).netloc # admitted.base)
        => ~admitted.ok

\* A foreign link that every other criterion would let through is refused.
ForeignLinkRefused ==
    /\ admitted.called
    /\ admitted.url = "http://other/"
    /\ admitted.base = BaseDomain
    /\ admitted.depth < max_depth
    /\ allowed_domains = {OtherDomain}
    /\ excluded_domains = {BaseDomain}
    /\ ~admitted.ok

(***************************************************************************)
(* C6: a fetch or extraction failure of one URL does not abort the batch   *)
(* or the crawl: the failing URL has an entry in failed_urls, every URL of *)
(* the batch before the fold position is processed, and a wave that ends   *)
(* below the page budget has processed all its URLs.                       *)
(***************************************************************************)
FailureIsolated ==
    /\ pc \in {"batch", "wave_end"} =>
         \A k \in DOMAIN outcomes :
             outcomes[k] \in FailReasons => batch[k] \in DOMAIN failed_urls
    /\ pc = "batch" =>
         \A k \in DOMAIN batch : k < fold_j => batch[k] \in visited_urls
    /\ (pc = "wave_end" /\ ~BudgetSpent(visited_urls)) =>
         Range(current_urls) \subseteq visited_urls

\* A wave of two batches: the first URL failed, the other URL of its batch
\* and the URL of the next batch gave their results.
FailureSurvived ==
    /\ pc = "wave_end"
    /\ Len(current_urls) = 3
    /\ batch_i = 2
    /\ current_urls[1] \in DOMAIN failed_urls
    /\ current_urls[1] \notin Range(all_results)
    /\ current_urls[2] \in Range(all_results)
    /\ current_urls[3] \in Range(all_results)

(***************************************************************************)
(* C7: the crawl loop terminates: with every fetch returning or failing,   *)
(* crawl_website starts at most max_depth waves and then reaches           *)
(* _process_results, whatever the links are.                               *)
(***************************************************************************)
CrawlTerminates == [](nwaves <= max_depth) /\ <>(pc = "done")

\* A crawl that used every wave the depth allows and came to its end.
AllWavesUsed ==
    /\ pc = "done"
    /\ max_depth = 3
    /\ nwaves = max_depth
    /\ queued_urls = {}

(***************************************************************************)
(* C8: every crawl_website call begins with visited, queued and failed     *)
(* empty.                                                                  *)
(***************************************************************************)
FreshFrontierPerCall ==
    [][(pc \in {"idle", "done"} /\ pc' = "loop") =>
          /\ visited_urls = {}
          /\ queued_urls = {}
          /\ failed_urls = EmptyMap]_vars

(***************************************************************************)
(* C9: crawl_multiple_urls never has more than 3 site crawls active, in    *)
(* any interleaving, and the crawl of every given URL is started.          *)
(***************************************************************************)
ActiveSites == {i \in DOMAIN site_state : site_state[i] = "crawling"}

SiteCrawlsBounded ==
    /\ [](Cardinality(ActiveSites) <= 3)
    /\ \A i \in 1..MaxSites :
         <>(i \in DOMAIN site_state => site_state[i] \in {"crawling", "done"})

\* Three crawls run while two more start URLs wait for a slot.
SitesQueued ==
    /\ Cardinality(ActiveSites) = 3
    /\ Len(sem_waiters) = 2

(***************************************************************************)
(* C10: robots.txt of a domain is read at most once per crawler and the    *)
(* cached decision stays; when loading failed (the cache holds None) every *)
(* URL of the domain is allowed.                                           *)
(***************************************************************************)
RobotsLoadedOnce ==
    \A d \in Domains :
        /\ robots_reads[d] <= 1
        /\ (d \in DOMAIN robots_cache /\ ~robots_cache[d].loaded) =>
             \A u \in URLs, rp \in RobotsOutcomes :
                 (urlparse(u).ok /\ urlparse(u).netloc = d) =>
                     _can_fetch([cache |-> robots_cache, reads |-> robots_reads],
                                u, rp)

RobotsCacheStable ==
    [][\A d \in DOMAIN robots_cache :
          d \in DOMAIN robots_cache' /\ robots_cache'[d] = robots_cache[d]]_vars

MaxCands == 3      \* a list of candidates has at most MaxCands entries

\* State in which a function is about to be called; the crawler is idle.
CallInit ==
    /\ max_depth = 1
    /\ max_pages = 1
    /\ allowed_domains = {}
    /\ excluded_domains = {}
    /\ CrawlerInit
    /\ admitted = NoCall
    /\ MultiIdle
    /\ call_ret = NoReturn

\* Sequences over S of length lo..hi.
SeqsOf(S, lo, hi) == UNION {[1..n -> S] : n \in lo..hi}

\* str.lower() and str.strip() on the strings of the model.
lower(str) == CASE str = "A@x.com" -> "a@x.com" [] OTHER -> str
strip(str) == CASE str = " " -> "" [] OTHER -> str

\* The candidates of a page: the same address in two spellings and another
\* address, every field empty, blank or filled.
CandidateEmails == {"a@x.com", "A@x.com", "b@x.com"}
Candidates ==
    [email : CandidateEmails, name : {"", "Ann Lee"}, title : {"", "CEO"},
     company : {"", "Acme"}, phone : {"", " "}]

\* A Python dict, which keeps the insertion order of its keys, as a
\* sequence of [key, value] items.
DictHas(d, key) == \E i \in DOMAIN d : d[i].key = key
DictGet(d, key) == d[CHOOSE i \in DOMAIN d : d[i].key = key].value
DictSet(d, key, value) ==
    IF DictHas(d, key)
    THEN [i \in DOMAIN d |->
            IF d[i].key = key THEN [key |-> key, value |-> value] ELSE d[i]]
    ELSE Append(d, [key |-> key, value |-> value])
DictValues(d) == [i \in DOMAIN d |-> d[i].value]

\* if email_data.get(key) and email_data[key].strip()
FieldFilled(value) == value # "" /\ strip(value) # ""

_count_filled_fields(email_data) ==
    (IF FieldFilled(email_data.name) THEN 1 ELSE 0)
    + (IF FieldFilled(email_data.title) THEN 1 ELSE 0)
    + (IF FieldFilled(email_data.company) THEN 1 ELSE 0)
    + (IF FieldFilled(email_data.phone) THEN 1 ELSE 0)

\* Mutant of ReplacesCurrent: a later entry wins a tie.
ReplacesCurrentOnTie(email_data, current) ==
    _count_filled_fields(email_data) >= _count_filled_fields(current)

\* if self._count_filled_fields(email_data) > self._count_filled_fields(current)
ReplacesCurrent(email_data, current) ==
    _count_filled_fields(email_data) > _count_filled_fields(current)

\* The for loop of _remove_duplicates from entry i on.
RECURSIVE RemoveDuplicatesLoop(_, _, _)
RemoveDuplicatesLoop(emails, i, seen) ==
    IF i > Len(emails)
    THEN seen
    ELSE LET email_data == emails[i]
             email == lower(email_data.email)
         IN RemoveDuplicatesLoop(emails, i + 1,
                IF ~DictHas(seen, email)
                THEN DictSet(seen, email, email_data)
                ELSE IF ReplacesCurrent(email_data, DictGet(seen, email))
                     THEN DictSet(seen, email, email_data)
                     ELSE seen)

_remove_duplicates(emails) == DictValues(RemoveDuplicatesLoop(emails, 1, <<>>))

RemoveDuplicatesCall ==
    /\ call_ret = NoReturn
    /\ call_ret' = <<_remove_duplicates(call_args)>>
    /\ UNCHANGED <<cfgvars, frontiervars, loopvars, admitted, multivars,
                   call_args>>

RemoveDuplicatesInit ==
    /\ CallInit
    /\ call_args \in SeqsOf(Candidates, 0, MaxCands)

SpecRemoveDuplicates == RemoveDuplicatesInit /\ [][RemoveDuplicatesCall]_vars

\* C11: _remove_duplicates returns exactly one entry per distinct lowercase
\* email of its input and no other entry; the entry kept for an email is
\* the input entry with the greatest count of filled {name, title, company,
\* phone} among the entries with that email, the earliest one on a tie.
\* (A field counts as filled when it is non-empty after strip().)
SameEmail(emails, e) == {i \in DOMAIN emails : lower(emails[i].email) = e}
MostComplete(emails, e) ==
    CHOOSE i \in SameEmail(emails, e) :
        \A j \in SameEmail(emails, e) :
            \/ _count_filled_fields(emails[j]) < _count_filled_fields(emails[i])
            \/ /\ _count_filled_fields(emails[j]) = _count_filled_fields(emails[i])
               /\ i <= j
DedupKeepsMostComplete ==
    Returned =>
        /\ \A i \in DOMAIN call_args :
             Cardinality({k \in DOMAIN Ret :
                 lower(Ret[k].email) = lower(call_args[i].email)}) = 1
        /\ \A k \in DOMAIN Ret :
             /\ SameEmail(call_args, lower(Ret[k].email)) # {}
             /\ Ret[k] =
                  call_args[MostComplete(call_args, lower(Ret[k].email))]

\* Witness of C11: three entries of one address in two spellings, the
\* second and third tie on two filled fields, the first has one; the second
\* was kept.
DedupTieSeen ==
    /\ Returned
    /\ Len(call_args) = 3
    /\ \A i \in 1..3 : lower(call_args[i].email) = "a@x.com"
    /\ call_args[1].email # call_args[2].email
    /\ _count_filled_fields(call_args[1]) = 1
    /\ _count_filled_fields(call_args[2]) = 2
    /\ _count_filled_fields(call_args[3]) = 2
    /\ call_args[2] # call_args[3]
    /\ Ret = <<call_args[2]>>

(***************************************************************************)
(* DataValidator.deduplicate_contacts: the contacts sorted by descending   *)
(* validation_score (sorted() is stable, also with reverse=True), then the *)
(* first contact of every email.  A score is in hundredths; a contact      *)
(* without the key sorts as 0.                                             *)
(***************************************************************************)
MaxContacts == 4   \* a list of contacts has at most MaxContacts entries

Contacts ==
    [email : {"", "a@x.com", "b@x.com"}, name : {"", "Ann Lee"},
     validation_score : {0, 30, 50}]

\* Mutant of SortedByScore: the contacts are left in input order.
Unsorted(contacts) == contacts

\* sorted(contacts, key=lambda x: x.get('validation_score', 0), reverse=True)
RECURSIVE SortedByScore(_)
SortedByScore(contacts) ==
    IF contacts = <<>>
    THEN <<>>
    ELSE LET n    == Len(contacts)
             last == contacts[n]
             init == SortedByScore(SubSeq(contacts, 1, n - 1))
             \* last goes behind every contact that scores at least as high
             pos  == Cardinality({i \in DOMAIN init :
                        init[i].validation_score >= last.validation_score})
         IN SubSeq(init, 1, pos) \o <<last>> \o SubSeq(init, pos + 1, n - 1)

\* The for loop of deduplicate_contacts from entry i on.
RECURSIVE DeduplicateLoop(_, _, _, _)
DeduplicateLoop(sorted_contacts, i, seen_emails, unique_contacts) ==
    IF i > Len(sorted_contacts)
    THEN unique_contacts
    ELSE LET contact == sorted_contacts[i]
             email == contact.email
         IN IF email # "" /\ email \notin seen_emails
            THEN DeduplicateLoop(sorted_contacts, i + 1,
                     seen_emails \cup {email}, Append(unique_contacts, contact))
            ELSE DeduplicateLoop(sorted_contacts, i + 1, seen_emails,
                                 unique_contacts)

deduplicate_contacts(contacts) ==
    DeduplicateLoop(SortedByScore(contacts), 1, {}, <<>>)

DeduplicateContactsCall ==
    /\ call_ret = NoReturn
    /\ call_ret' = <<deduplicate_contacts(call_args)>>
    /\ UNCHANGED <<cfgvars, frontiervars, loopvars, admitted, multivars,
                   call_args>>

DeduplicateInit ==
    /\ CallInit
    /\ call_args \in SeqsOf(Contacts, 0, MaxContacts)

SpecDeduplicate == DeduplicateInit /\ [][DeduplicateContactsCall]_vars

\* C12: deduplicate_contacts returns exactly one record per distinct email
\* of its input and no record without an email; the record of an email is
\* the input record of that email with the highest validation_score, the
\* first of them in input order when scores are equal.
WithEmail(contacts, e) == {i \in DOMAIN contacts : contacts[i].email = e}
BestScored(contacts, e) ==
    CHOOSE i \in WithEmail(contacts, e) :
        \A j \in WithEmail(contacts, e) :
            \/ contacts[j].validation_score < contacts[i].validation_score
            \/ /\ contacts[j].validation_score = contacts[i].validation_score
               /\ i <= j
DedupKeepsBestScore ==
    Returned =>
        /\ \A i \in DOMAIN call_args :
             call_args[i].email # "" =>
                 Cardinality(WithEmail(Ret, call_args[i].email)) = 1
        /\ \A k \in DOMAIN Ret :
             /\ Ret[k].email # ""
             /\ WithEmail(call_args, Ret[k].email) # {}
             /\ Ret[k] = call_args[BestScored(call_args, Ret[k].email)]

\* Witness of C12: one email three times, the lowest score first and the
\* two others tied; the second record was kept.
DedupScoreTieSeen ==
    /\ Returned
    /\ Len(call_args) = 3
    /\ \A i \in 1..3 : call_args[i].email = "a@x.com"
    /\ call_args[1].validation_score = 30
    /\ call_args[2].validation_score = 50
    /\ call_args[3].validation_score = 50
    /\ call_args[2] # call_args[3]
    /\ Ret = <<call_args[2]>>

(***************************************************************************)
(* WebsiteCrawler._process_results: the contacts of all pages flattened    *)
(* in page order and stamped with their page, validated when               *)
(* config.validate_emails is set, then deduplicated.  Scores and           *)
(* confidences are in hundredths, their products in ten-thousandths.       *)
(***************************************************************************)
MaxPageContacts == 1   \* a page carries at most MaxPageContacts contacts

\* WebsiteCrawler._calculate_validation_score(email): base 0.5, +0.2 for a
\* .edu/.gov/.org domain, +0.1 for the format, +0.1 for a non-generic
\* address.  It reads nothing but the email.
CrawlerValidationScore(email) ==
    CASE email = "a@x.com"    -> 50 + 10 + 10
      [] email = "info@x.org" -> 50 + 20 + 10
      [] OTHER                -> 50

\* The extracted entries of a page; the confidences are those of the
\* mailto (0.9) and the text-pattern (0.75) methods.
EmailData ==
    [email : {"a@x.com", "info@x.org"}, name : {"", "Ann Lee"},
     title : {"", "CEO"}, company : {"", "Acme"},
     phone : {"", "555-123-4567"}, confidence : {75, 90}]

\* _crawl_single_page: contact = {...} built from an extracted entry.
MakeContact(email_data) ==
    [email |-> email_data.email, name |-> email_data.name,
     title |-> email_data.title, company |-> email_data.company,
     phone |-> email_data.phone, confidence |-> email_data.confidence,
     validation_score |-> 100 * CrawlerValidationScore(email_data.email),
     source_url |-> ""]

\* CrawlResults of the two pages of a crawl.
PageResults(url) ==
    {[url |-> url, contacts |-> c] :
        c \in SeqsOf({MakeContact(d) : d \in EmailData}, 0, MaxPageContacts)}

\* The field validators of DataValidator on the values of the model; ""
\* stands for None.  _validate_email: strip, lower, then the format check.
_validate_email(email) ==
    CASE email = "a@x.com"    -> "a@x.com"
      [] email = "info@x.org" -> "info@x.org"
      [] OTHER                -> ""

\* _validate_name: a value with less than 80% letters is refused.
_validate_name(name) == CASE name = "Ann Lee" -> "Ann Lee" [] OTHER -> ""

\* _validate_phone: a value with less than 7 digits is refused.
_validate_phone(phone) ==
    CASE phone = "555-123-4567" -> "555-123-4567" [] OTHER -> ""

\* _validate_title: a title is re-capitalised word by word; a value with
\* less than 80% letters, digits and title punctuation is refused.
_validate_title(title) == CASE title = "CEO" -> "Ceo" [] OTHER -> ""

\* _validate_company
_validate_company(company) == CASE company = "Acme" -> "Acme" [] OTHER -> ""

\* Mutant of ValidatorScore: the sum is not scaled by the confidence.
ValidatorScoreUnscaled(contact) ==
    Min(10000,
        (30 + (IF contact.name # "" THEN 20 ELSE 0)
            + (IF contact.phone # "" THEN 20 ELSE 0)
            + (IF contact.title # "" THEN 15 ELSE 0)
            + (IF contact.company # "" THEN 15 ELSE 0)) * 100)

\* DataValidator._calculate_validation_score(contact)
ValidatorScore(contact) ==
    Min(10000,
        (30 + (IF contact.name # "" THEN 20 ELSE 0)
            + (IF contact.phone # "" THEN 20 ELSE 0)
            + (IF contact.title # "" THEN 15 ELSE 0)
            + (IF contact.company # "" THEN 15 ELSE 0)) * contact.confidence)

\* "for key, value in contact.items(): if key not in validated_contact and
\* value: validated_contact[key] = value": a field the validator left out
\* gets the value of the input.
CopyOther(validated, value) == IF validated = "" THEN value ELSE validated

\* DataValidator._validate_single_contact for a contact whose email passes:
\* the validated fields, the score computed on them, then the copy of the
\* other fields of the input.
_validate_single_contact(contact) ==
    LET validated ==
          [contact EXCEPT !.email = _validate_email(contact.email),
                          !.name = _validate_name(contact.name),
                          !.phone = _validate_phone(contact.phone),
                          !.title = _validate_title(contact.title),
                          !.company = _validate_company(contact.company)]
    IN [validated EXCEPT
          !.validation_score = ValidatorScore(validated),
          !.name = CopyOther(validated.name, contact.name),
          !.phone = CopyOther(validated.phone, contact.phone),
          !.title = CopyOther(validated.title, contact.title),
          !.company = CopyOther(validated.company, contact.company)]

\* A contact without an email, or whose email fails, gives None and is
\* left out.
validate_contacts(contacts) ==
    LET passing == SelectSeq(contacts, LAMBDA c : _validate_email(c.email) # "")
    IN [i \in DOMAIN passing |-> _validate_single_contact(passing[i])]

\* for result in crawl_results: for contact in result.contacts: stamp, append
RECURSIVE Flatten(_, _)
Flatten(crawl_results, i) ==
    IF i > Len(crawl_results)
    THEN <<>>
    ELSE [k \in DOMAIN crawl_results[i].contacts |->
            [crawl_results[i].contacts[k]
                EXCEPT !.source_url = crawl_results[i].url]]
         \o Flatten(crawl_results, i + 1)

\* Global deduplication: deduplicate_contacts on the records of this stage.
_process_results(crawl_results, validate_emails) ==
    LET all_contacts == Flatten(crawl_results, 1)
    IN deduplicate_contacts(IF validate_emails
                            THEN validate_contacts(all_contacts)
                            ELSE all_contacts)

ProcessResultsCall ==
    /\ call_ret = NoReturn
    /\ call_ret' = <<_process_results(call_args.crawl_results,
                                      call_args.validate_emails)>>
    /\ UNCHANGED <<cfgvars, frontiervars, loopvars, admitted, multivars,
                   call_args>>

ProcessResultsInit ==
    /\ CallInit
    /\ call_args \in [crawl_results :
                        {<<p1, p2>> : p1 \in PageResults("http://site/"),
                                      p2 \in PageResults("http://site/b")},
                      validate_emails : BOOLEAN]

SpecProcessResults == ProcessResultsInit /\ [][ProcessResultsCall]_vars

\* C13: when an email was found on two pages with different completeness,
\* the record the global deduplication keeps for it is the one with more
\* populated fields among {name, title, company, phone}, with email
\* validation enabled and with it disabled.
Populated(contact) ==
    Cardinality({f \in {"name", "title", "company", "phone"} :
                    contact[f] # ""})
GlobalDedupKeepsMoreComplete ==
    Returned =>
        LET found == Flatten(call_args.crawl_results, 1) IN
        \A i, j \in DOMAIN found :
            (/\ found[i].email = found[j].email
             /\ found[i].source_url # found[j].source_url
             /\ Populated(found[i]) > Populated(found[j]))
            => \E k \in DOMAIN Ret :
                   /\ Ret[k].email = found[i].email
                   /\ Ret[k].source_url = found[i].source_url

(***************************************************************************)
(* EmailExtractor.extract_emails (src/extractors/email_extractor.py): the  *)
(* entries of the mailto strategy, of the standard patterns and of the     *)
(* deobfuscation are appended in this order, an entry only when its email  *)
(* is not in found_emails yet.  Every strategy lower-cases its emails; the *)
(* standard patterns report one address once per matching pattern.  An     *)
(* exception in a strategy makes extract_emails return [].                 *)
(***************************************************************************)
MaxFound == 2      \* a strategy reports at most MaxFound entries

ExtractedEmails == {"a@x.com", "b@x.com"}
MailtoEntries == [email : ExtractedEmails, method : {"mailto_link"}]
StandardEntries ==
    [email : ExtractedEmails, method : {"standard_basic", "standard_relaxed"}]
ObfuscatedEntries == [email : ExtractedEmails, method : {"obfuscated"}]

\* Mutant of AppendNew: the entries are appended without the membership test.
AppendAll(state, emails) ==
    [found_emails  |-> state.found_emails \cup
                         {emails[i].email : i \in DOMAIN emails},
     email_details |-> state.email_details \o emails]

\* for email_data in emails: if email_data['email'] not in found_emails:
\*     found_emails.add(email_data['email']); email_details.append(email_data)
RECURSIVE AppendNew(_, _)
AppendNew(state, emails) ==
    IF emails = <<>>
    THEN state
    ELSE LET email_data == Head(emails) IN
         AppendNew(IF email_data.email \notin state.found_emails
                   THEN [found_emails  |-> state.found_emails
                                             \cup {email_data.email},
                         email_details |-> Append(state.email_details,
                                                  email_data)]
                   ELSE state,
                   Tail(emails))

extract_emails(mailto_emails, standard_emails, obfuscated_emails, raises) ==
    IF raises
    THEN <<>>
    ELSE AppendNew(AppendNew(AppendNew(
             [found_emails |-> {}, email_details |-> <<>>],
             mailto_emails), standard_emails), obfuscated_emails).email_details

ExtractEmailsCall ==
    /\ call_ret = NoReturn
    /\ call_ret' = <<extract_emails(call_args.mailto_emails,
                                    call_args.standard_emails,
                                    call_args.obfuscated_emails,
                                    call_args.raises)>>
    /\ UNCHANGED <<cfgvars, frontiervars, loopvars, admitted, multivars,
                   call_args>>

ExtractEmailsInit ==
    /\ CallInit
    /\ call_args \in [mailto_emails : SeqsOf(MailtoEntries, 0, MaxFound),
                      standard_emails : SeqsOf(StandardEntries, 0, MaxFound),
                      obfuscated_emails : SeqsOf(ObfuscatedEntries, 0, MaxFound),
                      raises : BOOLEAN]

SpecExtractEmails == ExtractEmailsInit /\ [][ExtractEmailsCall]_vars

\* C14: in the list extract_emails returns every email occurs once; the
\* entry kept for an email is its first entry in the order mailto entries,
\* standard-pattern entries, deobfuscation entries, and the list is in that
\* insertion order; when no strategy raised, every reported email is in it.
AllFound ==
    call_args.mailto_emails \o call_args.standard_emails
        \o call_args.obfuscated_emails
FirstIndex(entries, email) ==
    CHOOSE i \in DOMAIN entries :
        /\ entries[i].email = email
        /\ \A j \in 1..(i - 1) : entries[j].email # email
ExtractedOnceFirstWins ==
    Returned =>
        /\ \A k, l \in DOMAIN Ret : Ret[k].email = Ret[l].email => k = l
        /\ \A k \in DOMAIN Ret :
             /\ \E i \in DOMAIN AllFound : AllFound[i].email = Ret[k].email
             /\ Ret[k] = AllFound[FirstIndex(AllFound, Ret[k].email)]
        /\ \A k, l \in DOMAIN Ret :
             k < l => FirstIndex(AllFound, Ret[k].email)
                          < FirstIndex(AllFound, Ret[l].email)
        /\ ~call_args.raises =>
             \A i \in DOMAIN AllFound :
                 \E k \in DOMAIN Ret : Ret[k].email = AllFound[i].email

\* Witness of C14: one address reported by the mailto strategy, by a
\* standard pattern and by the deobfuscation, another one by a standard
\* pattern first; the mailto entry and that standard entry were returned.
ExtractedByAllStrategies ==
    /\ Returned
    /\ ~call_args.raises
    /\ Len(call_args.mailto_emails) = 1
    /\ call_args.mailto_emails[1].email = "a@x.com"
    /\ Len(call_args.standard_emails) = 2
    /\ call_args.standard_emails[1].email = "b@x.com"
    /\ call_args.standard_emails[2].email = "a@x.com"
    /\ Len(call_args.obfuscated_emails) = 2
    /\ call_args.obfuscated_emails[1].email = "a@x.com"
    /\ call_args.obfuscated_emails[2].email = "b@x.com"
    /\ Ret = <<call_args.mailto_emails[1], call_args.standard_emails[1]>>

(***************************************************************************)
(* The email validity gates.  A string is a sequence of characters:        *)
(*   EmailExtractor._is_valid_email_format_enhanced (extraction engine),   *)
(*   WebsiteCrawler._is_valid_email_format_enhanced (structured and        *)
(*   mailto extraction of the crawler).                                    *)
(***************************************************************************)
MinEmailLen == 4   \* the gates are called with strings of MinEmailLen..
MaxEmailLen == 7   \*   MaxEmailLen characters

\* The characters of the model: a letter and the punctuation of the gates.
Chars == {"a", ".", "@", "-", "_"}
\* The character classes of the pattern, on the characters of the model:
\* [a-zA-Z0-9._%+-], [a-zA-Z0-9.-] and [a-zA-Z].
LocalClass == {"a", ".", "_", "-"}
DomainClass == {"a", ".", "-"}
AlphaClass == {"a"}

Count(str, ch) == Cardinality({i \in DOMAIN str : str[i] = ch})
AllIn(str, class) == \A i \in DOMAIN str : str[i] \in class
\* re.search of a two-character literal
Contains(str, c1, c2) ==
    \E i \in 1..(Len(str) - 1) : str[i] = c1 /\ str[i + 1] = c2

\* local, domain = email.split('@') for a string with one '@'
AtIndex(email) == CHOOSE i \in DOMAIN email : email[i] = "@"
LocalPart(email) == SubSeq(email, 1, AtIndex(email) - 1)
DomainPart(email) == SubSeq(email, AtIndex(email) + 1, Len(email))

\* ^[a-zA-Z0-9._%+-]+@[a-zA-Z0-9.-]+\.[a-zA-Z]{2,}$ matches the string
EmailPatternMatches(email) ==
    \E p \in DOMAIN email :
        /\ email[p] = "@"
        /\ p > 1
        /\ AllIn(SubSeq(email, 1, p - 1), LocalClass)
        /\ \E q \in (p + 2)..Len(email) :
               /\ email[q] = "."
               /\ AllIn(SubSeq(email, p + 1, q - 1), DomainClass)
               /\ Len(email) - q >= 2
               /\ AllIn(SubSeq(email, q + 1, Len(email)), AlphaClass)

\* invalid_patterns of the extraction engine's gate
HasInvalidPattern(email) ==
    \/ Contains(email, ".", ".")                         \* \.{2,}
    \/ email[1] = "." \/ email[Len(email)] = "."         \* ^\.|\.$
    \/ Contains(email, "@", ".")                         \* @\.
    \/ Contains(email, ".", "@")                         \* \.@
    \/ email[1] = "-" \/ email[1] = "_"                  \* ^-|^_
    \/ email[Len(email)] = "-" \/ email[Len(email)] = "_"  \* -$|_$

\* EmailExtractor._is_valid_email_format_enhanced
EngineGate(email) ==
    /\ ~(Len(email) < 5 \/ Len(email) > 254)
    /\ Count(email, "@") = 1
    /\ LocalPart(email) # <<>> /\ DomainPart(email) # <<>>
    /\ ~(Len(LocalPart(email)) > 64 \/ Len(DomainPart(email)) > 255)
    /\ Count(DomainPart(email), ".") > 0
    /\ EmailPatternMatches(email)
    /\ ~HasInvalidPattern(email)
    /\ Count(DomainPart(email), ".") + 1 >= 2
    /\ Len(email) - (CHOOSE q \in DOMAIN email :
                        /\ email[q] = "."
                        /\ \A r \in (q + 1)..Len(email) : email[r] # ".") >= 2

\* WebsiteCrawler._is_valid_email_format_enhanced
CrawlerGate(email) ==
    /\ ~(Len(email) < 5 \/ Len(email) > 254)
    /\ Count(email, "@") = 1
    /\ LocalPart(email) # <<>> /\ DomainPart(email) # <<>>
    /\ Count(DomainPart(email), ".") > 0
    /\ EmailPatternMatches(email)

\* Both gates are asked about the same raw match.
EmailGatesCall ==
    /\ call_ret = NoReturn
    /\ call_ret' = <<[crawler |-> CrawlerGate(call_args),
                      engine  |-> EngineGate(call_args)]>>
    /\ UNCHANGED <<cfgvars, frontiervars, loopvars, admitted, multivars,
                   call_args>>

EmailGatesInit ==
    /\ CallInit
    /\ call_args \in SeqsOf(Chars, MinEmailLen, MaxEmailLen)

SpecEmailGates == EmailGatesInit /\ [][EmailGatesCall]_vars

\* C15: for every string the gate of the crawler's structured extraction
\* and the gate of the extraction engine give the same answer, and what
\* the crawler's gate accepts has no consecutive dots, no leading or
\* trailing dot, hyphen or underscore and no dot next to '@'.
EmailGatesAgree ==
    Returned =>
        /\ Ret.crawler = Ret.engine
        /\ Ret.crawler => ~HasInvalidPattern(call_args)

(***************************************************************************)
(* The context matcher of the crawler: _parse_context_text and the         *)
(* parsers behind it, called with the text around an email by the table,   *)
(* list and text-pattern extraction.  A text is a sequence of words joined *)
(* by single spaces (the parsers normalise whitespace first); the phone    *)
(* patterns are evaluated on its characters, the title and name patterns   *)
(* on its words.  A name is a sequence of words, <<>> when empty.          *)
(***************************************************************************)
MaxWords == 4      \* a context text has at most MaxWords words

ContextEmails == {"info@company.com", "ann.lee@x.com"}
ContextWords ==
    {"Professor", "Engineer", "Director", "Ann", "Lee", "Email:",
     "555-123-4567", "555-1234"} \cup ContextEmails

WordChars(word) ==
    CASE word = "Professor" ->
           <<"P", "r", "o", "f", "e", "s", "s", "o", "r">>
      [] word = "Engineer" ->
           <<"E", "n", "g", "i", "n", "e", "e", "r">>
      [] word = "Director" ->
           <<"D", "i", "r", "e", "c", "t", "o", "r">>
      [] word = "Ann" ->
           <<"A", "n", "n">>
      [] word = "Lee" ->
           <<"L", "e", "e">>
      [] word = "Email:" ->
           <<"E", "m", "a", "i", "l", ":">>
      [] word = "555-123-4567" ->
           <<"5", "5", "5", "-", "1", "2", "3", "-", "4", "5", "6", "7">>
      [] word = "555-1234" ->
           <<"5", "5", "5", "-", "1", "2", "3", "4">>
      [] word = "info@company.com" ->
           <<"i", "n", "f", "o", "@", "c", "o", "m", "p", "a", "n", "y", ".", "c", "o", "m">>
      [] word = "ann.lee@x.com" ->
           <<"a", "n", "n", ".", "l", "e", "e", "@", "x", ".", "c", "o", "m">>

\* The text as the string the patterns see.
RECURSIVE JoinWords(_)
JoinWords(text) ==
    IF text = <<>> THEN <<>>
    ELSE IF Len(text) = 1 THEN WordChars(text[1])
    ELSE WordChars(text[1]) \o <<" ">> \o JoinWords(Tail(text))

DigitChars == {"0", "1", "2", "3", "4", "5", "6", "7", "8", "9"}
\* [\d\s\-\(\)\.]
PhoneClass == DigitChars \cup {" ", "-", "(", ")", "."}
\* len(re.sub(r'[^\d]', '', phone))
DigitCount(phone) == Cardinality({i \in DOMAIN phone : phone[i] \in DigitChars})

\* str.strip() of a character sequence
RECURSIVE StripSpaces(_)
StripSpaces(str) ==
    IF str = <<>> THEN <<>>
    ELSE IF Head(str) = " " THEN StripSpaces(Tail(str))
    ELSE IF str[Len(str)] = " " THEN StripSpaces(SubSeq(str, 1, Len(str) - 1))
    ELSE str

\* The number of consecutive characters of PhoneClass from position j on.
ClassRun(str, j) ==
    CHOOSE n \in 0..(Len(str) + 1 - j) :
        /\ \A k \in j..(j + n - 1) : str[k] \in PhoneClass
        /\ (j + n <= Len(str)) => str[j + n] \notin PhoneClass

\* Length of the match of [\+]?[1-9]?[\d\s\-\(\)\.]{10,15} at position i
\* (lead: the pattern has the [1-9]? part), 0 when there is none.  The
\* quantifiers are greedy: the optional parts are taken when the rest can
\* still match.
PhoneMatchLen(str, i, lead) ==
    LET j == IF str[i] = "+" THEN i + 1 ELSE i IN
    IF /\ lead
       /\ j <= Len(str)
       /\ str[j] \in DigitChars \ {"0"}
       /\ ClassRun(str, j + 1) >= 10
    THEN (j - i) + 1 + Min(15, ClassRun(str, j + 1))
    ELSE IF j <= Len(str) /\ ClassRun(str, j) >= 10
    THEN (j - i) + Min(15, ClassRun(str, j))
    ELSE 0

\* phones = re.findall(phone_pattern, text); phones[0].strip() if phones else ''
FirstPhone(str, lead) ==
    IF \E i \in DOMAIN str : PhoneMatchLen(str, i, lead) > 0
    THEN LET i == CHOOSE k \in DOMAIN str :
                      /\ PhoneMatchLen(str, k, lead) > 0
                      /\ \A l \in 1..(k - 1) : PhoneMatchLen(str, l, lead) = 0
         IN StripSpaces(SubSeq(str, i, i + PhoneMatchLen(str, i, lead) - 1))
    ELSE <<>>

\* str.lower() of a word that spells a title.
LowerWord(word) ==
    CASE word = "Professor" -> "professor"
      [] word = "Engineer"  -> "engineer"
      [] word = "Director"  -> "director"
      [] OTHER              -> word

\* The part of a word that [A-Z][a-z]+ matches at its start, "" if none.
CapPrefix(word) ==
    CASE word \in {"Professor", "Engineer", "Director", "Ann", "Lee"} -> word
      [] word = "Email:" -> "Email"
      [] OTHER -> ""

\* A pattern list that is searched with re.IGNORECASE, each pattern as the
\* set of lower-case words it matches between word boundaries; the first
\* pattern that matches gives the title, as the text spells it.  Patterns
\* of two words match no single word of the model.
FirstTitle(text, patterns) ==
    IF \E p \in DOMAIN patterns : \E i \in DOMAIN text :
           LowerWord(text[i]) \in patterns[p]
    THEN LET p == CHOOSE q \in DOMAIN patterns :
                      /\ \E i \in DOMAIN text : LowerWord(text[i]) \in patterns[q]
                      /\ \A r \in 1..(q - 1) : \A i \in DOMAIN text :
                             LowerWord(text[i]) \notin patterns[r]
             i == CHOOSE k \in DOMAIN text :
                      /\ LowerWord(text[k]) \in patterns[p]
                      /\ \A l \in 1..(k - 1) : LowerWord(text[l]) \notin patterns[p]
         IN text[i]
    ELSE ""

\* title_patterns of _parse_context_with_regex
title_patterns ==
    <<{"professor", "prof", "prof."}, {"associate professor"},
      {"assistant professor"}, {"director"}, {"manager"}, {"engineer"},
      {"lecturer"}, {"research assistant"}, {"dr", "dr.", "phd", "ph.d", "ph.d."},
      {"senior \\w+"}, {"lead \\w+"}>>

\* strict_title_patterns of _parse_context_with_regex_strict
strict_title_patterns ==
    <<{"professor"}, {"associate professor"}, {"assistant professor"}, {"dr."}>>

\* strict_patterns of _extract_title_strict
strict_patterns ==
    <<{"professor"}, {"associate professor"}, {"assistant professor"},
      {"dr."}, {"director"}, {"manager"}, {"dean"}, {"chair"}>>

\* confident_titles of _is_confident_title
confident_titles ==
    {"professor", "prof", "prof.", "associate professor",
     "assistant professor", "dr", "dr.", "director", "manager", "head",
     "dean", "chair", "lecturer"}

_is_confident_title(title) == title # "" /\ LowerWord(title) \in confident_titles

\* ([A-Z][a-z]+(?:\s+[A-Z][a-z]+)+) matched from word i on: the longest run
\* of capitalised words; a word that goes on after its capitalised part
\* (as "Email:") ends the run.  <<>> when fewer than two words match.
RECURSIVE CapRun(_, _)
CapRun(text, i) ==
    IF i > Len(text) \/ CapPrefix(text[i]) = "" THEN <<>>
    ELSE IF CapPrefix(text[i]) # text[i] THEN <<CapPrefix(text[i])>>
    ELSE <<text[i]>> \o CapRun(text, i + 1)

GreedyName(text, i) ==
    IF i <= Len(text) /\ CapPrefix(text[i]) = text[i] /\ Len(CapRun(text, i)) >= 2
    THEN CapRun(text, i)
    ELSE <<>>

\* ([A-Z][a-z]+ [A-Z][a-z]+)(?:\s|$) matched from word i on
TwoWordName(text, i) ==
    IF /\ i + 1 <= Len(text)
       /\ CapPrefix(text[i]) = text[i]
       /\ CapPrefix(text[i + 1]) = text[i + 1]
    THEN <<text[i], text[i + 1]>>
    ELSE <<>>

\* matches[0] of re.findall(pattern, text) for a pattern "one of titles,
\* then a name": the name behind the leftmost title that has one.
FirstNameAfter(text, titles, greedy) ==
    LET NameAt(i) == IF greedy THEN GreedyName(text, i + 1)
                               ELSE TwoWordName(text, i + 1)
        hits == {i \in DOMAIN text : text[i] \in titles /\ NameAt(i) # <<>>}
    IN IF hits = {} THEN <<>>
       ELSE NameAt(CHOOSE i \in hits : \A j \in hits : i <= j)

\* non_name_indicators of _is_confident_name occur in these words.
IndicatorWords == {"Email", "Email:"} \cup ContextEmails

_is_confident_name(name) ==
    /\ Len(name) >= 2 /\ Len(name) <= 4
    /\ \A i \in DOMAIN name :
           /\ name[i] \notin IndicatorWords
           /\ CapPrefix(name[i]) = name[i]

\* infer_name_from_email: "info" matches ^([a-z])([a-z]{3,})$, "ann.lee"
\* matches ^([a-z]+)\.([a-z]+)$.
infer_name_from_email(email) ==
    CASE email = "info@company.com" -> <<"I.", "Nfo">>
      [] email = "ann.lee@x.com"    -> <<"Ann", "Lee">>

\* _infer_company_from_domain(email.split('@')[1], "")
_infer_company_from_domain(email) ==
    CASE email = "info@company.com" -> "Company"
      [] email = "ann.lee@x.com"    -> "X"

\* _parse_context_with_regex.  No word of the model holds 'department',
\* 'engineering' or 'science', and none matches a company pattern.
_parse_context_with_regex(text, email) ==
    LET name1 == FirstNameAfter(text, {"Professor", "Prof", "Prof.", "Dr", "Dr."}, TRUE)
        name2 == FirstNameAfter(text, {"Director", "Manager", "Engineer", "Analyst"}, TRUE)
        name  == IF name1 # <<>> THEN name1 ELSE name2
    IN [name    |-> IF name # <<>> THEN name ELSE infer_name_from_email(email),
        title   |-> FirstTitle(text, title_patterns),
        company |-> _infer_company_from_domain(email),
        phone   |-> FirstPhone(JoinWords(text), TRUE)]

\* _parse_context_with_regex_strict
_parse_context_with_regex_strict(text, email) ==
    LET candidate == FirstNameAfter(text, {"Professor", "Dr."}, FALSE) IN
    [name    |-> IF _is_confident_name(candidate) THEN candidate ELSE <<>>,
     title   |-> FirstTitle(text, strict_title_patterns),
     company |-> "",
     phone   |-> FirstPhone(JoinWords(text), FALSE)]

\* Length of the match of \d{3}[-.\s]?\d{3}[-.\s]?\d{4} at position i, 0
\* when there is none.
LocalPhoneLen(str, i) ==
    LET IsDigit(k) == k <= Len(str) /\ str[k] \in DigitChars
        IsSep(k)   == k <= Len(str) /\ str[k] \in {"-", ".", " "}
        a == i + 3
        b == (IF IsSep(a) THEN a + 1 ELSE a) + 3
        c == IF IsSep(b) THEN b + 1 ELSE b
    IN IF /\ \A k \in i..(i + 2) : IsDigit(k)
          /\ \A k \in (b - 3)..(b - 1) : IsDigit(k)
          /\ \A k \in c..(c + 3) : IsDigit(k)
       THEN c + 4 - i
       ELSE 0

\* _extract_phone_number_ai: the first three patterns need a '+' or a '(',
\* which no word of the model has; the match of the general pattern is
\* returned when it has 10 digits or more.
_extract_phone_number_ai(str) ==
    IF \E i \in DOMAIN str : LocalPhoneLen(str, i) > 0
    THEN LET i == CHOOSE k \in DOMAIN str :
                      /\ LocalPhoneLen(str, k) > 0
                      /\ \A l \in 1..(k - 1) : LocalPhoneLen(str, l) = 0
             phone == StripSpaces(SubSeq(str, i, i + LocalPhoneLen(str, i) - 1))
         IN IF DigitCount(phone) >= 10 THEN phone ELSE <<>>
    ELSE <<>>

\* What spaCy does in _parse_context_with_ai: it raises, or its PERSON
\* entities leave a selected name, or none (no ORG entity is found).
NlpOutcomes ==
    {[nlp |-> "none", name |-> <<>>], [nlp |-> "raises", name |-> <<>>],
     [nlp |-> "ok", name |-> <<>>], [nlp |-> "ok", name |-> <<"Ann", "Lee">>]}

\* _parse_context_with_ai
_parse_context_with_ai(text, email, ai) ==
    IF ai.nlp = "raises"
    THEN _parse_context_with_regex_strict(text, email)
    ELSE LET title == FirstTitle(text, strict_patterns) IN
         [name    |-> IF _is_confident_name(ai.name) THEN ai.name ELSE <<>>,
          title   |-> IF _is_confident_title(title) THEN title ELSE "",
          company |-> "",
          phone   |-> _extract_phone_number_ai(JoinWords(text))]

\* _parse_context_text: the result of the AI parser when it has a name
\* (a name of two words is longer than 3 characters), else the regex parser.
_parse_context_text(text, email, ai) ==
    IF ai.nlp # "none" /\ _parse_context_with_ai(text, email, ai).name # <<>>
    THEN _parse_context_with_ai(text, email, ai)
    ELSE _parse_context_with_regex(text, email)

\* The entries the context-matching paths append for an email found in a
\* text: _extract_from_table, _extract_from_list and
\* _extract_from_text_patterns attach _parse_context_text, _extract_from_card
\* leaves the fields empty.  The mailto path appends nothing:
\* _extract_context_around_element calls self._find_name_title_element,
\* which WebsiteCrawler does not define, and the AttributeError is caught
\* around the append.
ContextPaths == {"mailto", "table", "list", "card", "text"}

ContextEntry(path, text, email, ai) ==
    IF path = "mailto" THEN <<>>
    ELSE IF path = "card"
    THEN <<[email |-> email, name |-> <<>>, title |-> "", company |-> "",
            phone |-> <<>>, method |-> "card_structure_strict"]>>
    ELSE LET info == _parse_context_text(text, email, ai) IN
         <<[email |-> email, name |-> info.name, title |-> info.title,
            company |-> info.company, phone |-> info.phone,
            method |-> CASE path = "table" -> "table_structure"
                         [] path = "list"  -> "list_structure"
                         [] path = "text"  -> "text_pattern"]>>

ContextEntryCall ==
    /\ call_ret = NoReturn
    /\ call_ret' = <<ContextEntry(call_args.path, call_args.text,
                                  call_args.email, call_args.ai)>>
    /\ UNCHANGED <<cfgvars, frontiervars, loopvars, admitted, multivars,
                   call_args>>

\* Every text of up to MaxWords words around an email it holds.
ContextInputs ==
    {a \in [path : ContextPaths, text : SeqsOf(ContextWords, 1, MaxWords),
            email : ContextEmails, ai : NlpOutcomes] :
        \E i \in DOMAIN a.text : a.text[i] = a.email}

ContextInit ==
    /\ CallInit
    /\ call_args \in ContextInputs

SpecContext == ContextInit /\ [][ContextEntryCall]_vars

\* C16: no contact of the context-matching paths (mailto context, table
\* row, list item, card, text pattern) has a non-empty title outside the
\* closed set of recognised titles, and none has a phone with fewer than
\* 10 digits.
FieldGatesStrict ==
    Returned =>
        \A k \in DOMAIN Ret :
            /\ Ret[k].title # "" => LowerWord(Ret[k].title) \in confident_titles
            /\ Ret[k].phone # <<>> => DigitCount(Ret[k].phone) >= 10

\* C17: when no name of the context passes the name gate, the contact has
\* an empty name, never one derived from the local part of the email; the
\* text "Email: info@company.com" gives the name "".
NoNameFromEmail ==
    Returned =>
        \A k \in DOMAIN Ret :
            /\ Ret[k].name # <<>> => _is_confident_name(Ret[k].name)
            /\ (\A i \in DOMAIN call_args.text :
                    GreedyName(call_args.text, i) = <<>>)
               /\ call_args.ai.name = <<>>
               => Ret[k].name = <<>>

\* C18: waves are strictly ordered.  URLs are handed to _crawl_single_page
\* only when no task of the batch before is still running; a new wave is
\* handed out only from the loop head, after every earlier wave was ended
\* (current_depth counts them) and the links harvested so far are merged
\* into queued_urls; within a wave the next batch is handed out only by the
\* step that folds the last result of the batch before, whose URLs are
\* then all visited.
WavesOrdered ==
    [][crawled' # crawled =>
         /\ \A k \in DOMAIN outcomes : outcomes[k] # "pending"
         /\ \/ /\ nwaves' = nwaves + 1
               /\ pc = "loop"
               /\ current_depth = nwaves
               /\ next_urls \subseteq queued_urls
               /\ batch_i' = 0
            \/ /\ nwaves' = nwaves
               /\ current_urls' = current_urls
               /\ fold_j = Len(batch)
               /\ batch_i' = batch_i + Len(batch)
               /\ Range(batch) \subseteq visited_urls']_vars

\* Witness of C18: the second wave is in its second batch.
SecondWaveSecondBatch ==
    /\ pc = "batch"
    /\ nwaves = 2
    /\ current_depth = 1
    /\ batch_i > 0

\* C19: the page tasks of a batch never write visited_urls, queued_urls or
\* failed_urls: a step changes one of them only when no result of the
\* batch is pending, that is after the gather has returned.
FrontierWrittenAfterGather ==
    [][<<visited_urls, queued_urls, failed_urls>>' #
         <<visited_urls, queued_urls, failed_urls>> =>
           \A k \in DOMAIN batch_results : batch_results[k] # "pending"]_vars

\* The number of results of the current batch that the fold has processed.
Folded == IF pc = "wave_end" THEN fold_j ELSE fold_j - 1

\* The URLs among the first n of the batch whose own task returned a
\* CrawlResult, in batch order.
OkPrefix(n) ==
    LET idx == SelectSeq([k \in 1..n |-> k], LAMBDA k : outcomes[k] = "ok")
    IN [i \in 1..Len(idx) |-> batch[idx[i]]]

\* C20: the aggregation does not depend on the order in which the fetches
\* of a batch complete.  A completing task changes neither all_results nor
\* visited_urls; the result at position k is the one of the task of
\* batch[k]; and what the fold has appended to all_results for the batch is
\* the batch's URLs whose own outcome is a CrawlResult, in batch order, the
\* folded prefix of the batch being visited: both are functions of the
\* batch list and the per-URL outcomes alone.
AggregationPositional ==
    /\ [][(outcomes' # outcomes /\ crawled' = crawled) =>
            UNCHANGED <<all_results, visited_urls>>]_vars
    /\ [](pc \in {"batch", "wave_end"} =>
            /\ \A k \in DOMAIN batch_results :
                 batch_results[k] # "pending" =>
                   (batch_results[k] = "CrawlResult" <=> outcomes[k] = "ok")
            /\ LET ok == OkPrefix(Folded)
               IN /\ Len(ok) <= Len(all_results)
                  /\ SubSeq(all_results, Len(all_results) - Len(ok) + 1,
                            Len(all_results)) = ok
            /\ \A k \in 1..Folded : batch[k] \in visited_urls)

\* Witness of C20: a batch of two URLs has been folded, the first task
\* failed and the second returned a CrawlResult.
MixedBatchFolded ==
    /\ pc = "wave_end"
    /\ Len(batch) = 2
    /\ fold_j = 2
    /\ outcomes = <<"fetch error", "ok">>
    /\ all_results[Len(all_results)] = batch[2]
    /\ batch[1] \notin Range(all_results)

(***************************************************************************)
(* The fold is at a result for which it fetches the page a second time:    *)
(* "if isinstance(result, CrawlResult)" and "if current_depth <            *)
(* self.config.max_depth - 1" lead to "await self._fetch_page_content(url)"*)
(* after self.visited_urls.add(url).                                       *)
(***************************************************************************)
GatherReturned ==
    /\ pc = "batch"
    /\ \A k \in DOMAIN batch_results : batch_results[k] # "pending"

RefetchIssued ==
    /\ GatherReturned
    /\ fold_j \in DOMAIN batch
    /\ batch_results[fold_j] = "CrawlResult"
    /\ HarvestAllowed(current_depth)

\* C21: once the number of visited URLs has reached max_pages no further
\* fetch is issued in the run: no URL is handed to _crawl_single_page any
\* more, and the fold step that brings visited_urls to max_pages makes no
\* second fetch for the link harvest.
BudgetStopsFetches ==
    [][/\ Cardinality(visited_urls) >= max_pages => crawled' = crawled
       /\ (GatherReturned /\ Cardinality(visited_urls') >= max_pages) =>
             ~RefetchIssued]_vars

\* The page operations in flight: the tasks of the batch not yet returned.
InFlight == Cardinality({k \in DOMAIN batch_results : batch_results[k] = "pending"})

\* C22: at most BatchCap (20 in the code) page operations of a crawl are in
\* flight at any moment: a batch holds at most BatchCap URLs, and tasks are
\* handed out only when none is in flight.
InFlightBounded ==
    /\ [](Len(batch) <= BatchCap /\ InFlight <= BatchCap)
    /\ [][crawled' # crawled => InFlight = 0]_vars

\* Witness of C22: a wave larger than the cap, with a full batch in flight.
FullBatchInFlight ==
    /\ pc = "batch"
    /\ Len(current_urls) > BatchCap
    /\ InFlight = BatchCap

\* The call passed the depth test and the visited/queued test.
PassedFrontierChecks ==
    /\ admitted.called
    /\ admitted.depth < max_depth
    /\ admitted.url \notin visited_urls \cup queued_urls

\* C23: in _should_crawl_url an exception raised while the domain checks or
\* the robots check are evaluated counts as "allow": a URL that passed the
\* depth and visited/queued tests and whose parsing for the domain checks
\* raises is admitted, and so is a URL that passes every other test while
\* can_fetch of its robots parser raises.
ExceptionFailsOpen ==
    PassedFrontierChecks =>
      LET parsed == urlparse(admitted.url) IN
      /\ ~parsed.ok => admitted.ok
      /\ ( /\ parsed.ok
           /\ allowed_domains # {} => parsed.netloc \in allowed_domains
           /\ excluded_domains # {} => parsed.netloc \notin excluded_domains
           /\ parsed.netloc = admitted.base
           /\ parsed.ext \notin excluded_extensions
           /\ parsed.page <= PageLimit
           /\ parsed.netloc \in DOMAIN robots_cache
           /\ robots_cache[parsed.netloc].raises ) => admitted.ok

\* The reports of the strategies of the call, and the emails in a report.
StrategyReports ==
    <<call_args.mailto_emails, call_args.standard_emails,
      call_args.obfuscated_emails>>
EmailsOf(entries) == {entries[i].email : i \in DOMAIN entries}

\* C24: a failure inside one strategy of extract_emails is isolated to it.
\* When one strategy raised (it is the one without a report) and the two
\* others reported candidates, every email those two reported is in the
\* returned list.
StrategyFailureIsolated ==
    (Returned /\ call_args.raises) =>
      \A failing \in 1..3 :
        ( /\ StrategyReports[failing] = <<>>
          /\ \A other \in 1..3 \ {failing} : StrategyReports[other] # <<>> )
        => \A other \in 1..3 \ {failing} :
             EmailsOf(StrategyReports[other]) \subseteq EmailsOf(Ret)

(***************************************************************************)
(* validate_contacts as a call: records whose email passes or fails, with  *)
(* optional fields that are empty, pass their validator, or fail it.       *)
(***************************************************************************)
MaxValidated == 2   \* validate_contacts gets at most MaxValidated contacts

ValidatorInputs ==
    [email : {"a@x.com", "bad"}, name : {"", "Ann Lee", "12345"},
     phone : {"", "555-123-4567", "123"}, title : {"", "CEO", "!!!"},
     company : {"", "Acme", "!!!"}, confidence : {90},
     validation_score : {0}, source_url : {"http://site/"}]

ValidateContactsCall ==
    /\ call_ret = NoReturn
    /\ call_ret' = <<validate_contacts(call_args)>>
    /\ UNCHANGED <<cfgvars, frontiervars, loopvars, admitted, multivars,
                   call_args>>

ValidateContactsInit ==
    /\ CallInit
    /\ call_args \in SeqsOf(ValidatorInputs, 0, MaxValidated)

SpecValidateContacts == ValidateContactsInit /\ [][ValidateContactsCall]_vars

\* The input records whose email passes validation, in input order.
EmailPassing ==
    SelectSeq(call_args, LAMBDA c : _validate_email(c.email) # "")

\* C25: validate_contacts removes the records whose email fails validation
\* and returns one record for each of the others, in which a name, phone,
\* title or company value that fails its field validator is dropped (the
\* field is empty).
FailingValuesDropped ==
    Returned =>
      /\ Len(Ret) = Len(EmailPassing)
      /\ \A k \in DOMAIN Ret :
           /\ Ret[k].email = _validate_email(EmailPassing[k].email)
           /\ _validate_name(EmailPassing[k].name) = "" => Ret[k].name = ""
           /\ _validate_phone(EmailPassing[k].phone) = "" => Ret[k].phone = ""
           /\ _validate_title(EmailPassing[k].title) = "" => Ret[k].title = ""
           /\ _validate_company(EmailPassing[k].company) = "" =>
                Ret[k].company = ""

(***************************************************************************)
(* _calculate_validation_score as a call.  Weights are in hundredths, the  *)
(* confidence in percent, the score in ten-thousandths (10000 is 1.0).     *)
(***************************************************************************)
ScoredContacts ==
    [name : {"", "Ann Lee"}, phone : {"", "555-123-4567"},
     title : {"", "Ceo"}, company : {"", "Acme"}, confidence : 0..100]

ValidationScoreCall ==
    /\ call_ret = NoReturn
    /\ call_ret' = <<ValidatorScore(call_args)>>
    /\ UNCHANGED <<cfgvars, frontiervars, loopvars, admitted, multivars,
                   call_args>>

ValidationScoreInit ==
    /\ CallInit
    /\ call_args \in ScoredContacts

SpecValidationScore == ValidationScoreInit /\ [][ValidationScoreCall]_vars

\* The weight a field adds to the score when it is populated.
Weight(value, w) == IF value # "" THEN w ELSE 0

\* C26: the validator's validation_score is (0.3 + 0.2 if name + 0.2 if
\* phone + 0.15 if title + 0.15 if company) scaled by the confidence of the
\* record, and lies in [0, 1] for every confidence in [0, 1] and every
\* combination of populated fields.
ScoreWeightedInUnit ==
    Returned =>
      /\ Ret = (30 + Weight(call_args.name, 20) + Weight(call_args.phone, 20)
                   + Weight(call_args.title, 15) + Weight(call_args.company, 15))
               * call_args.confidence
      /\ Ret >= 0
      /\ Ret <= 10000

\* Witness of C26: a record with every field populated and confidence 1.0
\* got the score 1.0.
FullRecordScored ==
    /\ Returned
    /\ call_args.name # "" /\ call_args.phone # ""
    /\ call_args.title # "" /\ call_args.company # ""
    /\ call_args.confidence = 100
    /\ Ret = 10000

\* The fold of a batch is complete: the wave ended, the loop is at its
\* head or has ended, or the next batch has just been handed out.
BatchFolded ==
    \/ pc \in {"wave_end", "loop", "done"}
    \/ pc = "batch" /\ fold_j = 1 /\ batch_i > 0

\* C27: after each batch has been folded in, every URL in visited_urls
\* either contributed a CrawlResult to all_results or has an entry in
\* failed_urls.
VisitedHasOutcome ==
    BatchFolded =>
      \A url \in visited_urls :
          url \in Range(all_results) \/ url \in DOMAIN failed_urls

(***************************************************************************)
(* A crawl whose depth limit lies beyond the waves the page budget allows: *)
(* max_depth = MaxDepthCfg + 1 with the largest page budget.               *)
(***************************************************************************)
DeepInit ==
    /\ max_depth = MaxDepthCfg + 1
    /\ max_pages = MaxPagesCfg
    /\ allowed_domains = {}
    /\ excluded_domains = {}
    /\ CrawlerInit
    /\ admitted = NoCall
    /\ MultiIdle
    /\ CallIdle

\* Every fetch returns or fails and the control task keeps running, up to
\* the return of crawl_website.
SpecDeep == DeepInit /\ [][Next]_vars /\ WF_vars(Next)

\* The crawl ended below the page budget and below the depth limit.
EndedWithBudget ==
    /\ pc = "done"
    /\ Cardinality(visited_urls) < max_pages
    /\ current_depth < max_depth

\* C28: if a crawl ends with fewer than max_pages visited URLs and below
\* the depth limit, every link that _should_crawl_url admitted during the
\* run (the admitted links of a wave are the queue at the next loop head)
\* has been visited.
AdmittedNotLost ==
    \A url \in SiteURLs :
        []((pc = "loop" /\ url \in queued_urls) =>
              [](EndedWithBudget => url \in visited_urls))

\* The tests of _should_crawl_url(url, base_domain, depth) that do not
\* depend on the frontier, with the robots parser the cache holds.
PassesAdmission(url, depth) ==
    LET parsed == urlparse(url) IN
    /\ parsed.ok
    /\ depth < max_depth
    /\ allowed_domains # {} => parsed.netloc \in allowed_domains
    /\ excluded_domains # {} => parsed.netloc \notin excluded_domains
    /\ parsed.netloc = base_domain
    /\ parsed.ext \notin excluded_extensions
    /\ parsed.page <= PageLimit
    /\ parsed.netloc \in DOMAIN robots_cache
    /\ LET parser == robots_cache[parsed.netloc]
       IN (parser.loaded /\ ~parser.raises) => url \notin parser.disallow

\* C29: every URL crawled in a wave at depth d >= 1 was accepted by
\* _should_crawl_url(url, base_domain, d) while wave d-1 was processed (it
\* is among the links harvested in that wave and passes the admission
\* tests for depth d), and the start URL is the only URL that enters
\* queued_urls without an admission check.
WaveWasAdmitted ==
    [][/\ (nwaves' = nwaves + 1 /\ current_depth >= 1) =>
            \A url \in Range(current_urls') :
                /\ url \in next_urls
                /\ PassesAdmission(url, current_depth)
       /\ queued_urls' \ queued_urls \subseteq
            (IF pc = "idle" THEN {StartURL} ELSE next_urls)
       /\ \A url \in next_urls' \ next_urls :
            PassesAdmission(url, current_depth + 1)']_vars

\* Witness of C29: a wave at depth 1 made of two admitted links, while a
\* link the robots rules disallow was left out.
AdmittedWaveRunning ==
    /\ pc = "batch"
    /\ current_depth = 1
    /\ Len(current_urls) = 2
    /\ BaseDomain \in DOMAIN robots_cache
    /\ robots_cache[BaseDomain].disallow = {"http://site/c"}
    /\ "http://site/c" \notin Range(current_urls)

\* C30: whenever a wave is partitioned into batches the wave is non-empty,
\* so batch_size = min(20, len(current_urls)) is at least 1 and every
\* batch holds at least one URL.
WaveNonEmpty ==
    pc \in {"batch", "wave_end"} =>
        /\ Len(current_urls) >= 1
        /\ BatchSize(current_urls) >= 1
        /\ Len(batch) >= 1

\* Witness of C30: a wave cut to the one page the budget still allows.
LastPageWave ==
    /\ pc = "batch"
    /\ current_depth >= 1
    /\ Cardinality(visited_urls) = max_pages - 1
    /\ Len(current_urls) = 1
    /\ BatchSize(current_urls) = 1

====
